---- MODULE Spec2Model ----
(***************************************************************************)
(* DexTUI: the fetch / cache / hand-off pipeline.                          *)
(*                                                                         *)
(* fetch_and_cache (src/fetch.rs) runs as a tokio task spawned by main     *)
(* (src/main.rs) at startup and again on every 'r' key press.  Each task   *)
(* reads the cache file, takes the backfill path or the full-fetch path,   *)
(* updates the shared FetchState under its mutex, writes the cache file    *)
(* and hands its result to the consumer loop through the updated_data      *)
(* slot.  One step of the model is one stretch of a task between two of    *)
(* its accesses to shared state (mutex sections, file system).             *)
(***************************************************************************)
EXTENDS Integers, Sequences, FiniteSets, TLC

\* The largest fetch_limit of a run: the number of names asked of the list
\* endpoint.
TargetCount == 2

\* The number of fetch tasks one run spawns: the startup task and the refreshes.
MaxTasks == 2

Tasks == 1..MaxTasks

\* The pokedex ids of the records: the positions of the enumeration.
Ids == 1..TargetCount

\* The number of get_sprite_pixels calls per id in a run.
MaxCalls == 3

\* The longest query typed into the search line.
MaxQuery == 2

\* The longest list the selection is moved over.
MaxVisible == 4

\* main.rs 26-29: the values of POKEMON_LIMIT the runs are started with.
Limits == {0, TargetCount}

VARIABLES
    cacheFile,     \* data/pokemon.json: [kind, recs]
    spriteFiles,   \* the ids k for which data/sprites/<k>.png exists
    fetch_state,   \* the shared FetchState: [in_progress, fetched, total]
    updated_data,  \* the hand-off slot, an Option: <<>> or <<records>>
    tasks,         \* the spawned fetch_and_cache tasks, each with its locals
    mainPc,        \* the position of main
    all_pokemons,  \* app.all_pokemons of the consumer
    persisted,     \* history: the record lists a write of the cache file completed with
    crashed,       \* the process was killed
    fetch_limit,   \* fetch_limit of main, read once from POKEMON_LIMIT
    species,       \* the answers the species endpoint gives during this run
    sprite_cache,  \* app.sprite_cache: pokedex id -> SpriteThumb
    corrupt,       \* the ids whose sprite file is not a decodable image
    decodes,       \* history: per id, the times image::open decoded its file
    calls,         \* history: per id, the calls of get_sprite_pixels
    got,           \* history: the last call of get_sprite_pixels and its result
    lockedIo,      \* history: the disk and network calls made with a lock held
    passes,        \* the thumbnail threads main has spawned, each with its locals
    visible,       \* app.visible: positions of all_pokemons (from 1 here, from 0 there)
    selected_visible,  \* app.selected_visible: a position of visible, from 0
    search_mode,   \* app.search_mode
    search_query   \* app.search_query, a sequence of characters

\* The thumbnail cache and what is recorded of its use.
thumbVars == <<sprite_cache, corrupt, decodes, calls, got, lockedIo>>

\* The view of the consumer.
viewVars == <<visible, selected_visible, search_mode, search_query>>

\* What the fetch tasks never touch.
uiVars == <<thumbVars, viewVars, passes>>

\* The fetch side of the state.
fetchVars == <<cacheFile, spriteFiles, fetch_state, updated_data, tasks, mainPc,
               all_pokemons, persisted, crashed, fetch_limit, species>>

vars == <<fetchVars, thumbVars, viewVars, passes>>

----------------------------------------------------------------------------
(* Option<T> *)

None == <<>>

Some(x) == <<x>>

----------------------------------------------------------------------------
(* models.rs: Pokemon, Stat.  A name is the position of its entry in the    *)
(* list endpoint's answer; the service gives the record of name k the id k. *)

Stat(name, base) == [name |-> name, base |-> base]

\* A text (description) is a sequence of words and control characters.
Pokemon(name, pokedex, types, description, sprite, abilities, height, weight, base_experience, stats) ==
    [name |-> name, pokedex |-> pokedex, types |-> types,
     description |-> description, sprite |-> sprite,
     abilities |-> abilities, height |-> height, weight |-> weight,
     base_experience |-> base_experience, stats |-> stats]

----------------------------------------------------------------------------
(* The remote service.  A per-record answer is a JSON object that may lack  *)
(* any of its keys; the code reads each key with a default.                 *)

SpriteUrl == "front_default.png"

JsonFull ==
    [sprites |-> SpriteUrl, types |-> <<"fire">>,
     abilities |-> <<"blaze">>, height |-> 6,
     weight |-> 85, base_experience |-> 62, stats |-> <<Stat("hp", 39)>>]

JsonNoAbilities ==
    [sprites |-> SpriteUrl, types |-> <<"fire">>, height |-> 6,
     weight |-> 85, base_experience |-> 62, stats |-> <<Stat("hp", 39)>>]

JsonNoSprite ==
    [types |-> <<"fire">>, abilities |-> <<"blaze">>, height |-> 6,
     weight |-> 85, base_experience |-> 62, stats |-> <<Stat("hp", 39)>>]

\* The answers of the per-record endpoint that decode as JSON.
Payloads == {JsonFull, JsonNoAbilities, JsonNoSprite}

\* p_json.get(key)...unwrap_or(default)
JsonGet(json, key, default) ==
    IF key \in DOMAIN json THEN json[key] ELSE default

\* p_json.get("sprites").and_then(front_default).and_then(as_str)
JsonSpriteUrl(json) ==
    IF "sprites" \in DOMAIN json THEN Some(json["sprites"]) ELSE None

\* The answers of the species endpoint: the request fails, the body does not
\* decode, or it is a JSON object with or without flavor_text_entries.
SpeciesSendErr == [kind |-> "send_err"]

SpeciesUndecodable == [kind |-> "undecodable"]

SpeciesNoEntries == [kind |-> "json"]

FlavorFr == [language |-> "fr", flavor_text |-> <<"Lezard", "\n", "feu">>]

FlavorEnNoText == [language |-> "en"]

FlavorEn == [language |-> "en", flavor_text |-> <<"Fire", "\n", "lizard", "\f", "tail">>]

SpeciesNoEnglish == [kind |-> "json", flavor_text_entries |-> <<FlavorFr>>]

SpeciesEnglish ==
    [kind |-> "json", flavor_text_entries |-> <<FlavorFr, FlavorEnNoText, FlavorEn>>]

SpeciesAnswers ==
    {SpeciesSendErr, SpeciesUndecodable, SpeciesNoEntries, SpeciesNoEnglish,
     SpeciesEnglish}

\* The species answers that hold an English flavor text.
EnglishAnswers == {SpeciesEnglish}

\* fetch.rs 238-243: the fixed description of a record without one.
Placeholder == <<"No description available.">>

\* fetch.rs 233: ft.replace('\n', " ").replace('\u{c}', " ")
CleanText(ft) ==
    [k \in 1..Len(ft) |-> IF ft[k] \in {"\n", "\f"} THEN " " ELSE ft[k]]

\* The species answer is one of those the placeholder stands for: the request
\* failed, the body did not decode, or no entry of it is English.
NoEnglishEntry(s_res) ==
    \/ s_res.kind \in {"send_err", "undecodable"}
    \/ "flavor_text_entries" \notin DOMAIN s_res
    \/ \A k \in 1..Len(s_res.flavor_text_entries) :
          s_res.flavor_text_entries[k].language # "en"

\* A slip of Description: a failed species request leaves the description
\* empty.
DescriptionEmptyOnFailure(s_res) ==
    IF s_res.kind = "send_err" THEN <<>>
    ELSE IF NoEnglishEntry(s_res) THEN Placeholder
    ELSE CleanText(s_res.flavor_text_entries[3].flavor_text)

\* fetch.rs 219-244: the description taken from the species answer: the
\* first entry of language "en" that has a flavor_text, cleaned; the
\* placeholder when the request failed, the body did not decode (Null), the
\* object has no entries or none of them is English.
Description(s_res) ==
    IF s_res.kind = "send_err" THEN Placeholder
    ELSE LET s_json == IF s_res.kind = "undecodable" THEN [kind |-> "null"] ELSE s_res
         IN  IF "flavor_text_entries" \in DOMAIN s_json
             THEN LET entries == s_json.flavor_text_entries
                      found == {k \in 1..Len(entries) :
                                   /\ entries[k].language = "en"
                                   /\ "flavor_text" \in DOMAIN entries[k]}
                  IN  IF found = {} THEN Placeholder
                      ELSE CleanText(entries[CHOOSE k \in found :
                                                \A j \in found : k <= j].flavor_text)
             ELSE Placeholder

----------------------------------------------------------------------------
(* The disk before the program starts: what an earlier run (or nothing)     *)
(* left behind.                                                             *)

File(kind, recs) == [kind |-> kind, recs |-> recs]

\* A record as a full fetch with complete answers stores it.
CompleteRec(k) ==
    Pokemon(k, k, <<"grass">>, <<"Seed", " ", "pokemon">>, Some(SpriteUrl),
            <<"overgrow">>, 7, 69, 64, <<Stat("hp", 45)>>)

\* A record whose answer had no height: everything else is there.
NoHeightRec(k) == [CompleteRec(k) EXCEPT !.height = 0]

CompleteSet(n) == [k \in 1..n |-> CompleteRec(k)]

\* The last record lacks its height.
PartialSet(n) == [k \in 1..n |-> IF k = n THEN NoHeightRec(k) ELSE CompleteRec(k)]

\* A record that lacks one field: the value serde's default gives it.
Lacking(k, field) ==
    [CompleteRec(k) EXCEPT
        ![field] = IF field \in {"height", "weight", "base_experience"}
                   THEN 0 ELSE <<>>]

\* The fields the completeness test of the backfill loop looks at.
TestedFields ==
    {"sprite", "abilities", "stats", "height", "weight", "base_experience"}

\* [cache, sprites]: the cache file and the sprite files present.
Disk(cache, sprites) == [cache |-> cache, sprites |-> sprites]

InitDisks ==
    { Disk(File("absent", <<>>), {}),
      Disk(File("garbage", <<>>), {}),
      Disk(File("ok", CompleteSet(TargetCount)), 1..TargetCount),
      Disk(File("ok", CompleteSet(TargetCount)), 1..(TargetCount - 1)),
      Disk(File("ok", PartialSet(TargetCount)), 1..TargetCount),
      Disk(File("ok", CompleteSet(TargetCount - 1)), 1..(TargetCount - 1)) }

\* Every record is there with its sprite file; the last lacks one field.
LackingDisks ==
    { Disk(File("ok", [k \in 1..TargetCount |->
                          IF k = TargetCount THEN Lacking(k, field)
                          ELSE CompleteRec(k)]),
           1..TargetCount) : field \in TestedFields }

----------------------------------------------------------------------------
(* fetch.rs: FetchState, and the locals of one fetch_and_cache task.        *)

FetchState(in_progress, fetched, total) ==
    [in_progress |-> in_progress, fetched |-> fetched, total |-> total]

\* pc: the position; v, i: the backfill loop; pokemons, n: the full-fetch
\* loop (n is the position in `results`); p: the list fetch_and_cache
\* returned to the spawned closure.  History, read by no action: loaded, the
\* cache as loaded; complete, the positions of it that needed no backfill
\* when it was loaded; requested, the positions (backfill) or names (full
\* fetch) a per-record request was sent for; refused, those among them whose
\* request failed; undownloaded, the names whose sprite download failed;
\* undescribed, the names whose species answer held no English text;
\* discarded, whether the cache parsed and was shorter than the limit;
\* saves, the number of calls of std::fs::write on the cache file;
\* reset, the FetchState the task wrote when it reset the progress.
IdleTask ==
    [pc |-> "idle", v |-> <<>>, i |-> 0, pokemons |-> <<>>, n |-> 0,
     p |-> <<>>, loaded |-> <<>>, complete |-> {}, requested |-> {},
     refused |-> {}, undownloaded |-> {}, undescribed |-> {},
     discarded |-> FALSE, saves |-> 0, reset |-> None]

\* A task is active from its spawn until fetch_and_cache returns.
Active(t) == tasks[t].pc \notin {"idle", "deposit", "done", "failed"}

\* The letters of a record's name: name k is k times "b".
NameLetters(name) == [j \in 1..name |-> "b"]

\* The letters of a type.
TypeLetters(type) ==
    IF type = "fire" THEN <<"f", "i", "r", "e">>
    ELSE IF type = "grass" THEN <<"g", "r", "a", "s", "s">>
    ELSE <<>>

\* The characters the user types into the search line.
KeyChars == {"b", "F", "x"}

\* to_lowercase, on one character and on a text.
LowerChar(c) == IF c = "F" THEN "f" ELSE IF c = "B" THEN "b" ELSE c

Lower(text) == [j \in 1..Len(text) |-> LowerChar(text[j])]

\* str::contains
Contains(text, q) ==
    \E j \in 0..(Len(text) - Len(q)) : SubSeq(text, j + 1, j + Len(q)) = q

\* ui.rs 168-172: the record matches the lowercased query by its name or by
\* one of its types.
Matches(p, q) ==
    \/ Contains(Lower(NameLetters(p.name)), q)
    \/ \E k \in 1..Len(p.types) : Contains(Lower(TypeLetters(p.types[k])), q)

\* ui.rs 160-178: the positions apply_filter makes visible: all of them for
\* an empty query, those of the matching records otherwise, in order.
Visible(all, query) ==
    LET q == Lower(query)
        Shown(k) == q = <<>> \/ Matches(all[k], q)
    IN  SelectSeq([k \in 1..Len(all) |-> k], Shown)

\* A slip of Clamp: the selection is left where it was.
ClampKeeps(selected, vis) == selected

\* ui.rs 180-184: the selection apply_filter leaves for the new visible list.
Clamp(selected, vis) ==
    IF vis = <<>> THEN 0
    ELSE IF selected >= Len(vis) THEN Len(vis) - 1
    ELSE selected

\* ui.rs 160-186: apply_filter on the list, the query and the selection.
ApplyFilter(all, query, selected) ==
    /\ visible' = Visible(all, query)
    /\ selected_visible' = Clamp(selected, Visible(all, query))

\* ui.rs 43-56: App::new(all): everything visible, the first selected.
AppNew(all) ==
    [visible |-> [k \in 1..Len(all) |-> k], selected_visible |-> 0,
     search_mode |-> FALSE, search_query |-> <<>>]

\* The view is, or becomes, that of app.
ViewIs(app) ==
    /\ visible = app.visible
    /\ selected_visible = app.selected_visible
    /\ search_mode = app.search_mode
    /\ search_query = app.search_query

ViewBecomes(app) ==
    /\ visible' = app.visible
    /\ selected_visible' = app.selected_visible
    /\ search_mode' = app.search_mode
    /\ search_query' = app.search_query

\* main.rs 96-98: the thumbnail thread spawned for a list: the ids of its
\* records, the position of its loop, and the thumbnail it has decoded and
\* not yet inserted.
NewPass(all) ==
    [ids |-> [k \in 1..Len(all) |-> all[k].pokedex], k |-> 1, pc |-> "open",
     thumb |-> None]

\* ui.rs 43-56: the sprite cache of App::new is empty; no call of
\* get_sprite_pixels has been made.
NoThumbs ==
    /\ sprite_cache = <<>>
    /\ decodes = [id \in Ids |-> 0]
    /\ calls = [id \in Ids |-> 0]
    /\ got = None
    /\ lockedIo = {}
    /\ passes = <<>>

\* main.rs 26-53: the state when main has built the FetchState and the slot,
\* on one of the disks, with one of the limits.
StartOn(disks) ==
    /\ \E d \in disks :
          /\ cacheFile = d.cache
          /\ spriteFiles = d.sprites
          /\ persisted = IF d.cache.kind = "ok" THEN {d.cache.recs} ELSE {}
    /\ fetch_state = FetchState(FALSE, 0, 0)
    /\ updated_data = None
    /\ tasks = [t \in Tasks |-> IdleTask]
    /\ mainPc = "spawn"
    /\ all_pokemons = <<>>
    /\ crashed = FALSE
    /\ fetch_limit \in Limits
    /\ NoThumbs
    /\ corrupt = {}
    /\ ViewIs(AppNew(<<>>))

Start == StartOn(InitDisks)

\* The runs during which the species endpoint always has an English text.
Init == Start /\ species = EnglishAnswers

\* The runs during which the species endpoint may give any of its answers,
\* on the disks above and on those whose last record lacks one field.
InitSolo == StartOn(InitDisks \cup LackingDisks) /\ species = SpeciesAnswers

----------------------------------------------------------------------------
(* Helpers of the actions.                                                  *)

SetTask(t, r) == tasks' = [tasks EXCEPT ![t] = r]

\* A slip of NeedsBackfill: a record without weight counts as complete.
NeedsBackfillForgetsWeight(p, files) ==
    \/ p.sprite = None
    \/ p.pokedex \notin files
    \/ p.abilities = <<>>
    \/ p.stats = <<>>
    \/ p.height = 0
    \/ p.base_experience = 0

\* fetch.rs 31-37: the condition under which the backfill loop requests the
\* record again (the negation of "complete").
NeedsBackfill(p, files) ==
    \/ p.sprite = None
    \/ p.pokedex \notin files
    \/ p.abilities = <<>>
    \/ p.stats = <<>>
    \/ p.height = 0
    \/ p.weight = 0
    \/ p.base_experience = 0

\* The positions of a loaded list that are complete, given the sprite files.
CompleteAt(recs, files) ==
    {k \in 1..Len(recs) : ~NeedsBackfill(recs[k], files)}

\* A slip of BackfillAssign: the name is assigned from the answer too.
BackfillAssignTakesName(p, json, downloaded) ==
    [p EXCEPT !.name = JsonGet(json, "name", 0),
              !.sprite = IF downloaded THEN JsonSpriteUrl(json) ELSE p.sprite,
              !.abilities = JsonGet(json, "abilities", <<>>),
              !.height = JsonGet(json, "height", 0),
              !.weight = JsonGet(json, "weight", 0),
              !.base_experience = JsonGet(json, "base_experience", 0),
              !.stats = JsonGet(json, "stats", <<>>)]

\* fetch.rs 42-54 and 103-107: the record after a decoded answer; the sprite
\* reference is set only when the answer names a sprite and its download
\* succeeded, the five fields are assigned from the answer.
BackfillAssign(p, json, downloaded) ==
    [p EXCEPT !.sprite = IF downloaded THEN JsonSpriteUrl(json) ELSE p.sprite,
              !.abilities = JsonGet(json, "abilities", <<>>),
              !.height = JsonGet(json, "height", 0),
              !.weight = JsonGet(json, "weight", 0),
              !.base_experience = JsonGet(json, "base_experience", 0),
              !.stats = JsonGet(json, "stats", <<>>)]

\* fetch.rs 156-257: the record a full fetch builds from a decoded answer and
\* the answer of the species endpoint.
BuildPokemon(name, json, s_res) ==
    Pokemon(name, name, JsonGet(json, "types", <<>>), Description(s_res),
            JsonSpriteUrl(json),
            JsonGet(json, "abilities", <<>>),
            JsonGet(json, "height", 0),
            JsonGet(json, "weight", 0),
            JsonGet(json, "base_experience", 0),
            JsonGet(json, "stats", <<>>))

\* utils.rs load_data and fetch.rs 19-20: the file parsed, or nothing.
Parse(file) == IF file.kind = "ok" THEN Some(file.recs) ELSE None

----------------------------------------------------------------------------
(* main.rs: the consumer.                                                   *)

\* main.rs 45-60: the startup task is spawned.
StartupSpawn ==
    /\ ~crashed
    /\ mainPc = "spawn"
    /\ SetTask(1, [IdleTask EXCEPT !.pc = "start"])
    /\ mainPc' = "load"
    /\ UNCHANGED <<cacheFile, spriteFiles, fetch_state, updated_data,
                   all_pokemons, persisted, crashed, fetch_limit, species,
                   uiVars>>

\* main.rs 63-66, 75: load_data, an empty list when it fails.
LoadData ==
    /\ ~crashed
    /\ mainPc = "load"
    /\ all_pokemons' = IF Parse(cacheFile) = None THEN <<>> ELSE Parse(cacheFile)[1]
    /\ mainPc' = "loop"
    /\ ViewBecomes(AppNew(all_pokemons'))
    /\ UNCHANGED <<cacheFile, spriteFiles, fetch_state, updated_data, tasks,
                   persisted, crashed, fetch_limit, species, thumbVars, passes>>

\* A slip of Take: the slot is read (cloned) and not cleared.
TakeClones ==
    /\ ~crashed
    /\ mainPc = "loop"
    /\ updated_data # None
    /\ all_pokemons' = updated_data[1]
    /\ ApplyFilter(all_pokemons', search_query, selected_visible)
    /\ passes' = Append(passes, NewPass(all_pokemons'))
    /\ UNCHANGED <<cacheFile, spriteFiles, fetch_state, updated_data, tasks,
                   mainPc, persisted, crashed, fetch_limit, species, thumbVars,
                   search_mode, search_query>>

\* main.rs 85-119: slot.take() under the slot's lock; the list is replaced,
\* apply_filter recomputes the view, and a thumbnail thread is spawned for
\* the ids of the new list.
\* A slip of Take: the slot is polled only until a first list has come.
TakeOnce ==
    /\ ~crashed
    /\ mainPc = "loop"
    /\ passes = <<>>
    /\ updated_data # None
    /\ all_pokemons' = updated_data[1]
    /\ updated_data' = None
    /\ ApplyFilter(all_pokemons', search_query, selected_visible)
    /\ passes' = Append(passes, NewPass(all_pokemons'))
    /\ UNCHANGED <<cacheFile, spriteFiles, fetch_state, tasks, mainPc,
                   persisted, crashed, fetch_limit, species, thumbVars,
                   search_mode, search_query>>

Take ==
    /\ ~crashed
    /\ mainPc = "loop"
    /\ updated_data # None
    /\ all_pokemons' = updated_data[1]
    /\ updated_data' = None
    /\ ApplyFilter(all_pokemons', search_query, selected_visible)
    /\ passes' = Append(passes, NewPass(all_pokemons'))
    /\ UNCHANGED <<cacheFile, spriteFiles, fetch_state, tasks, mainPc,
                   persisted, crashed, fetch_limit, species, thumbVars,
                   search_mode, search_query>>

\* main.rs 154-167: 'r' spawns one more fetch task, whatever the others do.
Refresh ==
    /\ ~crashed
    /\ mainPc = "loop"
    /\ ~search_mode
    /\ \E t \in Tasks :
          /\ tasks[t].pc = "idle"
          /\ \A u \in 1..(t - 1) : tasks[u].pc # "idle"
          /\ SetTask(t, [IdleTask EXCEPT !.pc = "start"])
    /\ UNCHANGED <<cacheFile, spriteFiles, fetch_state, updated_data, mainPc,
                   all_pokemons, persisted, crashed, fetch_limit, species,
                   uiVars>>

\* The process is killed (a signal, a power cut) at any point: its memory
\* (the tasks, the FetchState, the slot, the consumer) is gone, the disk is
\* what it was.
Crash ==
    /\ ~crashed
    /\ crashed' = TRUE
    /\ tasks' = [t \in Tasks |-> IdleTask]
    /\ fetch_state' = FetchState(FALSE, 0, 0)
    /\ updated_data' = None
    /\ all_pokemons' = <<>>
    /\ mainPc' = "killed"
    /\ ViewBecomes(AppNew(<<>>))
    /\ sprite_cache' = <<>>
    /\ passes' = <<>>
    /\ UNCHANGED <<cacheFile, spriteFiles, persisted, fetch_limit, species,
                   corrupt, decodes, calls, got, lockedIo>>

----------------------------------------------------------------------------
(* fetch.rs: fetch_and_cache, the backfill path.                            *)

\* A slip of ReadCache: a cache file that does not parse ends the fetch with
\* the parse error.
ReadCacheUnwraps(t) ==
    /\ ~crashed
    /\ tasks[t].pc = "start"
    /\ IF cacheFile.kind \in {"garbage", "torn"}
       THEN SetTask(t, [tasks[t] EXCEPT !.pc = "failed"])
       ELSE IF cacheFile.kind = "ok" /\ Len(cacheFile.recs) >= fetch_limit
       THEN SetTask(t, [tasks[t] EXCEPT !.pc = "bf_reset",
                                        !.v = cacheFile.recs,
                                        !.loaded = cacheFile.recs,
                                        !.complete = CompleteAt(cacheFile.recs, spriteFiles)])
       ELSE SetTask(t, [tasks[t] EXCEPT !.pc = "full_reset",
                                        !.discarded = (Parse(cacheFile) # None)])
    /\ UNCHANGED <<cacheFile, spriteFiles, fetch_state, updated_data, mainPc,
                   all_pokemons, persisted, crashed, fetch_limit, species,
                   uiVars>>

\* A slip of ReadCache: the records of a cache that is too short are kept as
\* the first records of the new list.
ReadCacheKeepsShort(t) ==
    /\ ~crashed
    /\ tasks[t].pc = "start"
    /\ IF Parse(cacheFile) # None /\ Len(cacheFile.recs) >= fetch_limit
       THEN SetTask(t, [tasks[t] EXCEPT !.pc = "bf_reset",
                                        !.v = cacheFile.recs,
                                        !.loaded = cacheFile.recs,
                                        !.complete = CompleteAt(cacheFile.recs, spriteFiles)])
       ELSE SetTask(t, [tasks[t] EXCEPT !.pc = "full_reset",
                                        !.pokemons = cacheFile.recs,
                                        !.discarded = (Parse(cacheFile) # None)])
    /\ UNCHANGED <<cacheFile, spriteFiles, fetch_state, updated_data, mainPc,
                   all_pokemons, persisted, crashed, fetch_limit, species,
                   uiVars>>

\* fetch.rs 19-21: the cache file is read and parsed; a list of at least
\* `limit` records takes the backfill path, anything else the full fetch.
ReadCache(t) ==
    /\ ~crashed
    /\ tasks[t].pc = "start"
    /\ IF Parse(cacheFile) # None /\ Len(cacheFile.recs) >= fetch_limit
       THEN SetTask(t, [tasks[t] EXCEPT !.pc = "bf_reset",
                                        !.v = cacheFile.recs,
                                        !.loaded = cacheFile.recs,
                                        !.complete = CompleteAt(cacheFile.recs, spriteFiles)])
       ELSE SetTask(t, [tasks[t] EXCEPT !.pc = "full_reset",
                                        !.discarded = (Parse(cacheFile) # None)])
    /\ UNCHANGED <<cacheFile, spriteFiles, fetch_state, updated_data, mainPc,
                   all_pokemons, persisted, crashed, fetch_limit, species,
                   uiVars>>

\* fetch.rs 22-29: the progress is reset under the lock, the loop entered.
BackfillReset(t) ==
    /\ ~crashed
    /\ tasks[t].pc = "bf_reset"
    /\ fetch_state' = FetchState(TRUE, 0, Len(tasks[t].v))
    /\ SetTask(t, [tasks[t] EXCEPT
                     !.pc = IF Len(tasks[t].v) = 0 THEN "bf_save" ELSE "bf_check",
                     !.i = 1,
                     !.reset = Some(fetch_state')])
    /\ UNCHANGED <<cacheFile, spriteFiles, updated_data, mainPc, all_pokemons,
                   persisted, crashed, fetch_limit, species, uiVars>>

\* fetch.rs 30-38: the record at position i is tested (Path::exists reads the
\* sprite directory); a complete record goes straight to the progress update.
BackfillCheck(t) ==
    /\ ~crashed
    /\ tasks[t].pc = "bf_check"
    /\ SetTask(t, [tasks[t] EXCEPT
                     !.pc = IF NeedsBackfill(tasks[t].v[tasks[t].i], spriteFiles)
                            THEN "bf_request" ELSE "bf_progress"])
    /\ UNCHANGED <<cacheFile, spriteFiles, fetch_state, updated_data, mainPc,
                   all_pokemons, persisted, crashed, fetch_limit, species,
                   uiVars>>

\* A slip of BackfillRequestFails: the failure goes on to the next record
\* without the progress update (a `continue`).
BackfillRequestFailsSkipsProgress(t) ==
    /\ ~crashed
    /\ tasks[t].pc = "bf_request"
    /\ SetTask(t, [tasks[t] EXCEPT
                     !.pc = IF tasks[t].i = Len(tasks[t].v) THEN "bf_save" ELSE "bf_check",
                     !.i = tasks[t].i + 1,
                     !.requested = tasks[t].requested \cup {tasks[t].i},
                     !.refused = tasks[t].refused \cup {tasks[t].i}])
    /\ UNCHANGED <<cacheFile, spriteFiles, fetch_state, updated_data, mainPc,
                   all_pokemons, persisted, crashed, fetch_limit, species,
                   uiVars>>

\* fetch.rs 39-41: the per-record request fails, or its answer does not
\* decode: the record is left as it is.
BackfillRequestFails(t) ==
    /\ ~crashed
    /\ tasks[t].pc = "bf_request"
    /\ SetTask(t, [tasks[t] EXCEPT !.pc = "bf_progress",
                                   !.requested = tasks[t].requested \cup {tasks[t].i},
                                   !.refused = tasks[t].refused \cup {tasks[t].i}])
    /\ UNCHANGED <<cacheFile, spriteFiles, fetch_state, updated_data, mainPc,
                   all_pokemons, persisted, crashed, fetch_limit, species,
                   uiVars>>

\* fetch.rs 39-109: the answer decodes; the sprite is downloaded and written
\* when the answer names one and the download succeeds, the fields assigned.
BackfillRequest(t) ==
    /\ ~crashed
    /\ tasks[t].pc = "bf_request"
    /\ \E json \in Payloads, download_ok \in BOOLEAN :
          LET p == tasks[t].v[tasks[t].i]
              downloaded == JsonSpriteUrl(json) # None /\ download_ok
          IN  /\ spriteFiles' = IF downloaded THEN spriteFiles \cup {p.pokedex}
                                ELSE spriteFiles
              /\ SetTask(t, [tasks[t] EXCEPT
                               !.pc = "bf_progress",
                               !.requested = tasks[t].requested \cup {tasks[t].i},
                               !.v[tasks[t].i] = BackfillAssign(p, json, downloaded)])
    /\ UNCHANGED <<cacheFile, fetch_state, updated_data, mainPc, all_pokemons,
                   persisted, crashed, fetch_limit, species, uiVars>>

\* fetch.rs 111-116: fetched = i + 1 under the lock (i counts from 0 there,
\* from 1 here), then the next record or the end of the loop.
BackfillProgress(t) ==
    /\ ~crashed
    /\ tasks[t].pc = "bf_progress"
    /\ fetch_state' = [fetch_state EXCEPT !.fetched = tasks[t].i]
    /\ SetTask(t, [tasks[t] EXCEPT
                     !.pc = IF tasks[t].i = Len(tasks[t].v) THEN "bf_save" ELSE "bf_check",
                     !.i = tasks[t].i + 1])
    /\ UNCHANGED <<cacheFile, spriteFiles, updated_data, mainPc, all_pokemons,
                   persisted, crashed, fetch_limit, species, uiVars>>

\* fetch.rs 117-119: std::fs::write opens data/pokemon.json itself, truncating
\* it; when the open fails the error is dropped and the task goes on.
BackfillSave(t) ==
    /\ ~crashed
    /\ tasks[t].pc = "bf_save"
    /\ \E opened \in BOOLEAN :
          IF opened
          THEN /\ cacheFile' = File("torn", <<>>)
               /\ SetTask(t, [tasks[t] EXCEPT !.pc = "bf_write",
                                              !.saves = tasks[t].saves + 1])
          ELSE /\ cacheFile' = cacheFile
               /\ SetTask(t, [tasks[t] EXCEPT !.pc = "bf_done",
                                              !.saves = tasks[t].saves + 1])
    /\ UNCHANGED <<spriteFiles, fetch_state, updated_data, mainPc, all_pokemons,
                   persisted, crashed, fetch_limit, species, uiVars>>

\* fetch.rs 118: the bytes of the serialized list reach the opened file.
BackfillWrite(t) ==
    /\ ~crashed
    /\ tasks[t].pc = "bf_write"
    /\ cacheFile' = File("ok", tasks[t].v)
    /\ persisted' = persisted \cup {tasks[t].v}
    /\ SetTask(t, [tasks[t] EXCEPT !.pc = "bf_done"])
    /\ UNCHANGED <<spriteFiles, fetch_state, updated_data, mainPc, all_pokemons,
                   crashed, fetch_limit, species, uiVars>>

\* fetch.rs 120-124: in_progress is cleared under the lock, Ok(v) returned.
BackfillDone(t) ==
    /\ ~crashed
    /\ tasks[t].pc = "bf_done"
    /\ fetch_state' = [fetch_state EXCEPT !.in_progress = FALSE]
    /\ SetTask(t, [tasks[t] EXCEPT !.pc = "deposit", !.p = tasks[t].v])
    /\ UNCHANGED <<cacheFile, spriteFiles, updated_data, mainPc, all_pokemons,
                   persisted, crashed, fetch_limit, species, uiVars>>

----------------------------------------------------------------------------
(* fetch.rs: fetch_and_cache, the full-fetch path.                          *)

\* A slip of FullReset: fetched is left at the value of the fetch before.
FullResetKeepsFetched(t) ==
    /\ ~crashed
    /\ tasks[t].pc = "full_reset"
    /\ fetch_state' = FetchState(TRUE, fetch_state.fetched, fetch_limit)
    /\ SetTask(t, [tasks[t] EXCEPT !.pc = "list", !.reset = Some(fetch_state')])
    /\ UNCHANGED <<cacheFile, spriteFiles, updated_data, mainPc, all_pokemons,
                   persisted, crashed, fetch_limit, species, uiVars>>

\* fetch.rs 129-134: the progress is reset under the lock.
FullReset(t) ==
    /\ ~crashed
    /\ tasks[t].pc = "full_reset"
    /\ fetch_state' = FetchState(TRUE, 0, fetch_limit)
    /\ SetTask(t, [tasks[t] EXCEPT !.pc = "list", !.reset = Some(fetch_state')])
    /\ UNCHANGED <<cacheFile, spriteFiles, updated_data, mainPc, all_pokemons,
                   persisted, crashed, fetch_limit, species, uiVars>>

\* fetch.rs 138-144: the list request fails or its answer is unusable: `?`
\* returns the error, nothing else is done.
ListRequestFails(t) ==
    /\ ~crashed
    /\ tasks[t].pc = "list"
    /\ SetTask(t, [tasks[t] EXCEPT !.pc = "failed"])
    /\ UNCHANGED <<cacheFile, spriteFiles, fetch_state, updated_data, mainPc,
                   all_pokemons, persisted, crashed, fetch_limit, species,
                   uiVars>>

\* fetch.rs 138-147: the list endpoint answers with the names 1..limit.
ListRequest(t) ==
    /\ ~crashed
    /\ tasks[t].pc = "list"
    /\ SetTask(t, [tasks[t] EXCEPT
                     !.pc = IF fetch_limit = 0 THEN "f_save" ELSE "f_request",
                     !.n = 1])
    /\ UNCHANGED <<cacheFile, spriteFiles, fetch_state, updated_data, mainPc,
                   all_pokemons, persisted, crashed, fetch_limit, species,
                   uiVars>>

\* A slip of FullRequestFails: a default record is pushed for the name whose
\* request failed.
FullRequestFailsPushesDefault(t) ==
    /\ ~crashed
    /\ tasks[t].pc = "f_request"
    /\ SetTask(t, [tasks[t] EXCEPT
                     !.pc = IF tasks[t].n = fetch_limit THEN "f_save" ELSE "f_request",
                     !.n = tasks[t].n + 1,
                     !.requested = tasks[t].requested \cup {tasks[t].n},
                     !.refused = tasks[t].refused \cup {tasks[t].n},
                     !.pokemons = Append(tasks[t].pokemons,
                                         BuildPokemon(tasks[t].n, <<>>, SpeciesSendErr))])
    /\ UNCHANGED <<cacheFile, spriteFiles, fetch_state, updated_data, mainPc,
                   all_pokemons, persisted, crashed, fetch_limit, species,
                   uiVars>>

\* fetch.rs 150-154: the request for name n fails: the name is skipped, the
\* progress is not touched.
FullRequestFails(t) ==
    /\ ~crashed
    /\ tasks[t].pc = "f_request"
    /\ SetTask(t, [tasks[t] EXCEPT
                     !.pc = IF tasks[t].n = fetch_limit THEN "f_save" ELSE "f_request",
                     !.n = tasks[t].n + 1,
                     !.requested = tasks[t].requested \cup {tasks[t].n},
                     !.refused = tasks[t].refused \cup {tasks[t].n}])
    /\ UNCHANGED <<cacheFile, spriteFiles, fetch_state, updated_data, mainPc,
                   all_pokemons, persisted, crashed, fetch_limit, species,
                   uiVars>>

\* fetch.rs 155: the answer for name n does not decode: `?` returns the error.
FullDecodeFails(t) ==
    /\ ~crashed
    /\ tasks[t].pc = "f_request"
    /\ SetTask(t, [tasks[t] EXCEPT !.pc = "failed",
                                   !.requested = tasks[t].requested \cup {tasks[t].n}])
    /\ UNCHANGED <<cacheFile, spriteFiles, fetch_state, updated_data, mainPc,
                   all_pokemons, persisted, crashed, fetch_limit, species,
                   uiVars>>

\* fetch.rs 155-266: the species endpoint is asked for the description, the
\* record is built and pushed, the sprite downloaded and written when the
\* answer names one and the download succeeds.
FullRequest(t) ==
    /\ ~crashed
    /\ tasks[t].pc = "f_request"
    /\ \E json \in Payloads, s_res \in species, download_ok \in BOOLEAN :
          LET rec == BuildPokemon(tasks[t].n, json, s_res)
              downloaded == JsonSpriteUrl(json) # None /\ download_ok
          IN  /\ spriteFiles' = IF downloaded THEN spriteFiles \cup {rec.pokedex}
                                ELSE spriteFiles
              /\ SetTask(t, [tasks[t] EXCEPT
                               !.pc = "f_progress",
                               !.requested = tasks[t].requested \cup {tasks[t].n},
                               !.undescribed =
                                   IF NoEnglishEntry(s_res)
                                   THEN tasks[t].undescribed \cup {tasks[t].n}
                                   ELSE tasks[t].undescribed,
                               !.undownloaded =
                                   IF JsonSpriteUrl(json) # None /\ ~download_ok
                                   THEN tasks[t].undownloaded \cup {tasks[t].n}
                                   ELSE tasks[t].undownloaded,
                               !.pokemons = Append(tasks[t].pokemons, rec)])
    /\ UNCHANGED <<cacheFile, fetch_state, updated_data, mainPc, all_pokemons,
                   persisted, crashed, fetch_limit, species, uiVars>>

\* fetch.rs 267-272: fetched = pokemons.len() under the lock, then the next
\* name or the end of the loop.
FullProgress(t) ==
    /\ ~crashed
    /\ tasks[t].pc = "f_progress"
    /\ fetch_state' = [fetch_state EXCEPT !.fetched = Len(tasks[t].pokemons)]
    /\ SetTask(t, [tasks[t] EXCEPT
                     !.pc = IF tasks[t].n = fetch_limit THEN "f_save" ELSE "f_request",
                     !.n = tasks[t].n + 1])
    /\ UNCHANGED <<cacheFile, spriteFiles, updated_data, mainPc, all_pokemons,
                   persisted, crashed, fetch_limit, species, uiVars>>

\* fetch.rs 275-278: std::fs::write opens data/pokemon.json itself, truncating
\* it; when the open fails the error is dropped and the task goes on.
FullSave(t) ==
    /\ ~crashed
    /\ tasks[t].pc = "f_save"
    /\ \E opened \in BOOLEAN :
          IF opened
          THEN /\ cacheFile' = File("torn", <<>>)
               /\ SetTask(t, [tasks[t] EXCEPT !.pc = "f_write",
                                              !.saves = tasks[t].saves + 1])
          ELSE /\ cacheFile' = cacheFile
               /\ SetTask(t, [tasks[t] EXCEPT !.pc = "f_done",
                                              !.saves = tasks[t].saves + 1])
    /\ UNCHANGED <<spriteFiles, fetch_state, updated_data, mainPc, all_pokemons,
                   persisted, crashed, fetch_limit, species, uiVars>>

\* fetch.rs 277: the bytes of the serialized list reach the opened file.
FullWrite(t) ==
    /\ ~crashed
    /\ tasks[t].pc = "f_write"
    /\ cacheFile' = File("ok", tasks[t].pokemons)
    /\ persisted' = persisted \cup {tasks[t].pokemons}
    /\ SetTask(t, [tasks[t] EXCEPT !.pc = "f_done"])
    /\ UNCHANGED <<spriteFiles, fetch_state, updated_data, mainPc, all_pokemons,
                   crashed, fetch_limit, species, uiVars>>

\* fetch.rs 279-286: the progress is closed under the lock, Ok(pokemons)
\* returned.
FullDone(t) ==
    /\ ~crashed
    /\ tasks[t].pc = "f_done"
    /\ fetch_state' = FetchState(FALSE, Len(tasks[t].pokemons), Len(tasks[t].pokemons))
    /\ SetTask(t, [tasks[t] EXCEPT !.pc = "deposit", !.p = tasks[t].pokemons])
    /\ UNCHANGED <<cacheFile, spriteFiles, updated_data, mainPc, all_pokemons,
                   persisted, crashed, fetch_limit, species, uiVars>>

\* A slip of Deposit: the closure writes the slot without matching on Ok.
DepositIgnoresErr(t) ==
    /\ ~crashed
    /\ tasks[t].pc \in {"deposit", "failed"}
    /\ updated_data' = Some(tasks[t].p)
    /\ SetTask(t, [tasks[t] EXCEPT !.pc = "done"])
    /\ UNCHANGED <<cacheFile, spriteFiles, fetch_state, mainPc, all_pokemons,
                   persisted, crashed, fetch_limit, species, uiVars>>

\* main.rs 56-59 and 160-165: the closure stores the returned list in the
\* slot under the slot's lock; an Err is dropped (the task is then "failed").
Deposit(t) ==
    /\ ~crashed
    /\ tasks[t].pc = "deposit"
    /\ updated_data' = Some(tasks[t].p)
    /\ SetTask(t, [tasks[t] EXCEPT !.pc = "done"])
    /\ UNCHANGED <<cacheFile, spriteFiles, fetch_state, mainPc, all_pokemons,
                   persisted, crashed, fetch_limit, species, uiVars>>

----------------------------------------------------------------------------

Next ==
    \/ StartupSpawn
    \/ LoadData
    \/ Take
    \/ Refresh
    \/ Crash
    \/ \E t \in Tasks : ReadCache(t)
    \/ \E t \in Tasks : BackfillReset(t)
    \/ \E t \in Tasks : BackfillCheck(t)
    \/ \E t \in Tasks : BackfillRequestFails(t)
    \/ \E t \in Tasks : BackfillRequest(t)
    \/ \E t \in Tasks : BackfillProgress(t)
    \/ \E t \in Tasks : BackfillSave(t)
    \/ \E t \in Tasks : BackfillWrite(t)
    \/ \E t \in Tasks : BackfillDone(t)
    \/ \E t \in Tasks : FullReset(t)
    \/ \E t \in Tasks : ListRequestFails(t)
    \/ \E t \in Tasks : ListRequest(t)
    \/ \E t \in Tasks : FullRequestFails(t)
    \/ \E t \in Tasks : FullDecodeFails(t)
    \/ \E t \in Tasks : FullRequest(t)
    \/ \E t \in Tasks : FullProgress(t)
    \/ \E t \in Tasks : FullSave(t)
    \/ \E t \in Tasks : FullWrite(t)
    \/ \E t \in Tasks : FullDone(t)
    \/ \E t \in Tasks : Deposit(t)

Spec == Init /\ [][Next]_vars

\* One run of the program in which no key is pressed: the startup fetch is
\* the only one.
NextSolo ==
    \/ StartupSpawn
    \/ LoadData
    \/ Take
    \/ Crash
    \/ \E t \in Tasks : ReadCache(t)
    \/ \E t \in Tasks : BackfillReset(t)
    \/ \E t \in Tasks : BackfillCheck(t)
    \/ \E t \in Tasks : BackfillRequestFails(t)
    \/ \E t \in Tasks : BackfillRequest(t)
    \/ \E t \in Tasks : BackfillProgress(t)
    \/ \E t \in Tasks : BackfillSave(t)
    \/ \E t \in Tasks : BackfillWrite(t)
    \/ \E t \in Tasks : BackfillDone(t)
    \/ \E t \in Tasks : FullReset(t)
    \/ \E t \in Tasks : ListRequestFails(t)
    \/ \E t \in Tasks : ListRequest(t)
    \/ \E t \in Tasks : FullRequestFails(t)
    \/ \E t \in Tasks : FullDecodeFails(t)
    \/ \E t \in Tasks : FullRequest(t)
    \/ \E t \in Tasks : FullProgress(t)
    \/ \E t \in Tasks : FullSave(t)
    \/ \E t \in Tasks : FullWrite(t)
    \/ \E t \in Tasks : FullDone(t)
    \/ \E t \in Tasks : Deposit(t)

SpecSolo == InitSolo /\ [][NextSolo]_vars

----------------------------------------------------------------------------
(* The claims about the fetch pipeline.                                     *)

ActiveTasks == {t \in Tasks : Active(t)}

\* The positions at which a task has reset the progress and not yet returned.
PastReset(t) ==
    tasks[t].pc \in {"bf_check", "bf_request", "bf_progress", "bf_save",
                     "bf_write", "bf_done", "list", "f_request", "f_progress",
                     "f_save", "f_write", "f_done"}

\* The positions at which a backfill pass has processed every record.
BackfillPassed(t) == tasks[t].pc \in {"bf_save", "bf_write", "bf_done"}

\* C1: at most one fetch_and_cache is active at any time; a trigger issued
\* while a fetch is in flight starts no second, concurrent fetch.
C1_AtMostOneFetchActive == Cardinality(ActiveTasks) <= 1

\* C2: the slot is written only after the save of the cache file succeeded:
\* a list found in the slot has been written to the cache file completely.
C2_SlotOnlyAfterSave ==
    updated_data # None => updated_data[1] \in persisted

\* C3: a save is atomic: when the process is killed at any point, the cache
\* file holds a complete content (the previous or the new one), never a
\* truncated or partly written one.
C3_SaveIsAtomic == crashed => cacheFile.kind # "torn"

\* C4: in every reachable state of the shared FetchState, fetched <= total
\* whenever total > 0.
C4_FetchedAtMostTotal ==
    fetch_state.total > 0 => fetch_state.fetched <= fetch_state.total

\* C5: whenever no fetch operation is active, in_progress is false: before
\* the first trigger, after a fetch returned a list, after a fetch ended with
\* an error.
C5_IdleMeansNotInProgress ==
    ActiveTasks = {} => ~fetch_state.in_progress

\* C6: whenever a fetch operation is active, in_progress is true: every read
\* between the start of a triggered fetch and its return yields true.
C6_ActiveMeansInProgress ==
    ActiveTasks # {} => fetch_state.in_progress

\* C7: when a fetch operation returns a list (either path), the FetchState
\* has fetched = total = the length of the returned list.
C7_CompletionCounts ==
    [][\A t \in Tasks :
          (tasks[t].pc # "deposit" /\ tasks'[t].pc = "deposit")
             => /\ fetch_state'.fetched = Len(tasks'[t].p)
                /\ fetch_state'.total = Len(tasks'[t].p)]_vars

\* C8: within one fetch operation (from its reset of the progress to its
\* return) the value of fetched never decreases from one state to the next
\* of the running program.
C8_FetchedOnlyIncreases ==
    [][((\E t \in Tasks : PastReset(t)) /\ ~crashed')
          => fetch_state'.fetched >= fetch_state.fetched]_vars

\* C9: when a backfill pass has processed its records, a record that was
\* complete when the cache was loaded got no request and is unchanged, and
\* the records requested are exactly those that were partial when loaded.
C9_BackfillRequestsPartialOnly ==
    \A t \in Tasks :
       BackfillPassed(t) =>
          /\ \A k \in tasks[t].complete : tasks[t].v[k] = tasks[t].loaded[k]
          /\ tasks[t].requested = (1..Len(tasks[t].loaded)) \ tasks[t].complete

\* C10: when a backfill pass has processed its records, a field among
\* abilities, stats, height, weight and base_experience that was non-empty or
\* non-zero in the loaded record has the same value in the record after it.
C10_BackfillKeepsPresentFields ==
    \A t \in Tasks :
       BackfillPassed(t) =>
          \A k \in 1..Len(tasks[t].loaded) :
             LET before == tasks[t].loaded[k]
                 after == tasks[t].v[k]
             IN  /\ before.abilities # <<>> => after.abilities = before.abilities
                 /\ before.stats # <<>> => after.stats = before.stats
                 /\ before.height # 0 => after.height = before.height
                 /\ before.weight # 0 => after.weight = before.weight
                 /\ before.base_experience # 0
                       => after.base_experience = before.base_experience

----------------------------------------------------------------------------
(* The claims about failures, the cache decision and the result.            *)

\* C11: fetch_and_cache returns an error if and only if the list request
\* fails or its answer is unusable: a task that ended with an error ended
\* before it had the list of names (n = 0), never at a per-record step.
C11_ErrorOnlyFromEnumeration ==
    \A t \in Tasks : tasks[t].pc = "failed" => tasks[t].n = 0

Returned(t) == tasks[t].pc \in {"deposit", "done"}

\* C13: with target_count = 0 a fetch returns an empty list and sends no
\* request (no list request, no per-record request), whatever the cache file
\* holds.
C13_ZeroTargetNoNetwork ==
    fetch_limit = 0 =>
       \A t \in Tasks :
          /\ Returned(t) => tasks[t].p = <<>>
          /\ tasks[t].requested = {}
          /\ tasks[t].n = 0
          /\ tasks[t].pc # "failed"

\* C14: in a full fetch, a record whose sprite download failed is still in
\* the result, and its sprite reference is unset.
C14_FailedDownloadLeavesSpriteUnset ==
    \A t \in Tasks :
       \A name \in tasks[t].undownloaded :
          \E k \in 1..Len(tasks[t].pokemons) :
             /\ tasks[t].pokemons[k].name = name
             /\ tasks[t].pokemons[k].sprite = None

\* C15: on the full-fetch path, a name whose species request failed, whose
\* species body did not decode or whose species answer has no English entry
\* is in the result with the description "No description available.", and
\* the fetch goes on: it is recording that record's progress or is past that
\* name.
C15_PlaceholderDescriptionKeepsRecord ==
    \A t \in Tasks : \A name \in tasks[t].undescribed :
       /\ \E k \in 1..Len(tasks[t].pokemons) :
             /\ tasks[t].pokemons[k].name = name
             /\ tasks[t].pokemons[k].description = Placeholder
       /\ \/ tasks[t].pc = "f_progress" /\ tasks[t].n = name
          \/ tasks[t].n > name
       /\ Returned(t) =>
             \E k \in 1..Len(tasks[t].p) :
                /\ tasks[t].p[k].name = name
                /\ tasks[t].p[k].description = Placeholder

\* C15 happens: a full fetch has returned every name, the first of them
\* without an English description and the last with one.
C15_Witness ==
    \E t \in Tasks :
       /\ Returned(t)
       /\ tasks[t].undescribed = {1}
       /\ Len(tasks[t].p) = TargetCount
       /\ tasks[t].p[TargetCount].description # Placeholder

\* C16: a cache file that is missing or does not parse is never fatal.  The
\* fetch that reads it goes to the full-fetch path with the locals of a fetch
\* that found no file (nothing loaded, nothing kept), and the consumer's
\* initial load of it gives the empty list and enters the loop.
C16_UnusableCacheIsNotFatal ==
    [][/\ \A t \in Tasks :
            (/\ tasks[t].pc = "start"
             /\ tasks'[t].pc # "start"
             /\ ~crashed'
             /\ cacheFile.kind # "ok")
            => tasks'[t] = [IdleTask EXCEPT !.pc = "full_reset"]
       /\ (/\ mainPc = "load"
           /\ mainPc' # "load"
           /\ ~crashed'
           /\ cacheFile.kind # "ok")
          => (mainPc' = "loop" /\ all_pokemons' = <<>>)]_vars

\* C16 happens: the cache file does not parse, the consumer has loaded the
\* empty list and runs its loop, and a fetch that read the file has built
\* every record on the full-fetch path.
C16_Witness ==
    /\ cacheFile.kind = "garbage"
    /\ mainPc = "loop"
    /\ all_pokemons = <<>>
    /\ \E t \in Tasks :
          /\ tasks[t].pc = "f_save"
          /\ Len(tasks[t].pokemons) = TargetCount

\* The positions of a fetch on the full-fetch path, and after it.
FullPath ==
    {"full_reset", "list", "f_request", "f_progress", "f_save", "f_write",
     "f_done", "deposit", "done", "failed"}

\* The records a full fetch can build for each name.
Built ==
    [name \in 1..TargetCount |->
        {BuildPokemon(name, json, s_res) :
            json \in Payloads, s_res \in SpeciesAnswers}]

\* The list holds only records built from answers to requests this fetch
\* sent, in the order of the enumeration.
BuiltFromEnumeration(t, recs) ==
    /\ \A k \in 1..Len(recs) :
          /\ recs[k].name \in tasks[t].requested \ tasks[t].refused
          /\ recs[k] \in Built[recs[k].name]
    /\ \A j, k \in 1..Len(recs) : j < k => recs[j].name < recs[k].name

\* C17: a fetch that parsed a cache with fewer records than the limit is on
\* the full-fetch path, with nothing of that cache in its locals: the list
\* it builds, returns and saves holds only records built from the answers to
\* its own requests, in enumeration order.
C17_ShortCacheIsDiscarded ==
    /\ [](\A t \in Tasks : tasks[t].discarded =>
            /\ tasks[t].pc \in FullPath
            /\ tasks[t].v = <<>>
            /\ tasks[t].loaded = <<>>
            /\ BuiltFromEnumeration(t, tasks[t].pokemons)
            /\ BuiltFromEnumeration(t, tasks[t].p)
            /\ Returned(t) => tasks[t].p = tasks[t].pokemons)
    /\ [][\A t \in Tasks :
            (/\ tasks[t].discarded
             /\ tasks[t].pc = "f_write"
             /\ tasks'[t].pc # "f_write"
             /\ ~crashed')
            => cacheFile' = File("ok", tasks[t].pokemons)]_vars

\* C17 happens: a fetch that discarded a cache of fewer records than the
\* limit has built a record for every name, and its list is the cache file.
C17_Witness ==
    \E t \in Tasks :
       /\ tasks[t].discarded
       /\ Returned(t)
       /\ Len(tasks[t].p) = TargetCount
       /\ cacheFile = File("ok", tasks[t].p)

\* The positions at which a task has processed every record of its pass and
\* called the save.
Saved(t) ==
    tasks[t].pc \in {"bf_write", "bf_done", "f_write", "f_done", "deposit", "done"}

\* C18: one fetch calls the save of the cache file exactly once, after it
\* has processed every record of its pass; a fetch that ended with an error
\* never called it; and from the start of a fetch to its save the content of
\* the cache file does not change.
C18_OneSaveAfterThePass ==
    /\ [](\A t \in Tasks :
            /\ tasks[t].saves = IF Saved(t) THEN 1 ELSE 0
            /\ tasks[t].pc = "failed" => tasks[t].saves = 0
            /\ Returned(t) => tasks[t].saves = 1)
    /\ [][\A t \in Tasks :
            (Active(t) /\ tasks[t].saves = 0 /\ ~crashed' /\ cacheFile' # cacheFile)
            => tasks'[t].saves = 1]_vars

\* The task took the backfill path (i is set when its loop is entered).
OnBackfill(t) ==
    \/ tasks[t].pc \in {"bf_reset", "bf_check", "bf_request", "bf_progress",
                         "bf_save", "bf_write", "bf_done"}
    \/ Returned(t) /\ tasks[t].i > 0

\* The two lists have the same length and, at each position, the same id and
\* the same name.
SameOrder(a, b) ==
    /\ Len(a) = Len(b)
    /\ \A k \in 1..Len(a) :
          a[k].pokedex = b[k].pokedex /\ a[k].name = b[k].name

\* C19: a backfill pass keeps the length and the order of the loaded cache,
\* whatever the limit: the list it works on, the list it returns and the
\* list it saves have as many records as the cache it loaded, with the same
\* id and name at each position.
C19_BackfillKeepsOrderAndLength ==
    /\ [](\A t \in Tasks : OnBackfill(t) =>
            /\ SameOrder(tasks[t].v, tasks[t].loaded)
            /\ Returned(t) => SameOrder(tasks[t].p, tasks[t].loaded))
    /\ [][\A t \in Tasks :
            (tasks[t].pc = "bf_write" /\ tasks'[t].pc # "bf_write" /\ ~crashed')
            => /\ cacheFile'.kind = "ok"
               /\ SameOrder(cacheFile'.recs, tasks[t].loaded)]_vars

\* C19 happens: with a limit below the length of the cache, a backfill pass
\* has changed a record, saved and returned its list.
C19_Witness ==
    \E t \in Tasks :
       /\ Returned(t)
       /\ tasks[t].i > 0
       /\ Len(tasks[t].loaded) > fetch_limit
       /\ tasks[t].p # tasks[t].loaded
       /\ cacheFile = File("ok", tasks[t].p)

----------------------------------------------------------------------------
(* ui.rs: the thumbnail cache read by draw_ui.                              *)

\* ui.rs 65-66: the size of the canonical thumbnail.
THUMB_W == 48

THUMB_H == 48

\* A slip of SpriteThumb: the alpha byte of each pixel is pushed too.
SpriteThumbTakesAlpha(w, h, image) ==
    [w |-> w, h |-> h, pixels |-> [image |-> image, len |-> w * h * 4]]

\* ui.rs 20-25: SpriteThumb; the pixel buffer is the image it was made from
\* and its length in bytes.
SpriteThumb(w, h, image) ==
    [w |-> w, h |-> h, pixels |-> [image |-> image, len |-> w * h * 3]]

\* ui.rs 313-314: the sizes draw_ui asks for, min(available, 64) each way:
\* the canonical size, a smaller and a larger one.
Sizes == {<<THUMB_W, THUMB_H>>, <<16, 16>>, <<64, 20>>}

\* ui.rs 72: image::open succeeds on a file that exists and is an image.
ImageOpens(id) == id \in spriteFiles \ corrupt

\* ui.rs 98-136: the rows returned for a thumbnail: taken from its buffer
\* when the size asked is the thumbnail's, resized from its buffer otherwise;
\* last is the highest index of the buffer that was read (104-107, 119-122).
Rows(thumb, w, h) ==
    [w |-> w, h |-> h, from |-> thumb.pixels,
     resized |-> ~(thumb.w = w /\ thumb.h = h),
     last |-> ((thumb.h - 1) * thumb.w + (thumb.w - 1)) * 3 + 2]

\* The cache with an entry for id.
Insert(cache, id, thumb) ==
    [k \in DOMAIN cache \cup {id} |-> IF k = id THEN thumb ELSE cache[k]]

\* A call of get_sprite_pixels and what it did: the rows returned, and
\* whether it decoded the file.
Call(id, w, h, rows, decoded) ==
    [id |-> id, w |-> w, h |-> h, rows |-> rows, decoded |-> decoded]

\* ui.rs 69-72: image::open called by the consumer between the lock() of the
\* sprite cache and the end of get_sprite_pixels.
OpenUnderLock ==
    [by |-> "consumer", lock |-> "sprite_cache", op |-> "image::open"]

\* A slip of GetSpritePixels: a size other than the thumbnail's is served by
\* decoding the file again.
GetSpritePixelsReopens(id, w, h) ==
    /\ calls[id] < MaxCalls
    /\ calls' = [calls EXCEPT ![id] = calls[id] + 1]
    /\ IF ~ImageOpens(id)
       THEN /\ got' = Some(Call(id, w, h, None, FALSE))
            /\ UNCHANGED <<sprite_cache, decodes>>
       ELSE LET hit == id \in DOMAIN sprite_cache /\ w = THUMB_W /\ h = THUMB_H
                thumb == SpriteThumb(THUMB_W, THUMB_H, id)
            IN  /\ sprite_cache' = Insert(sprite_cache, id, thumb)
                /\ decodes' = [decodes EXCEPT ![id] = IF hit THEN @ ELSE @ + 1]
                /\ got' = Some(Call(id, w, h, Some(Rows(thumb, w, h)), ~hit))
    /\ lockedIo' = IF id \in DOMAIN sprite_cache THEN lockedIo
                   ELSE lockedIo \cup {OpenUnderLock}
    /\ UNCHANGED <<fetchVars, corrupt, viewVars, passes>>

\* A slip of GetSpritePixels: a file that cannot be opened leaves an entry
\* without pixels in the cache.
GetSpritePixelsCachesMiss(id, w, h) ==
    /\ calls[id] < MaxCalls
    /\ calls' = [calls EXCEPT ![id] = calls[id] + 1]
    /\ IF id \notin DOMAIN sprite_cache /\ ~ImageOpens(id)
       THEN /\ got' = Some(Call(id, w, h, None, FALSE))
            /\ sprite_cache' = Insert(sprite_cache, id, SpriteThumb(0, 0, id))
            /\ UNCHANGED decodes
       ELSE LET hit == id \in DOMAIN sprite_cache
                cache == IF hit THEN sprite_cache
                         ELSE Insert(sprite_cache, id,
                                     SpriteThumb(THUMB_W, THUMB_H, id))
            IN  /\ sprite_cache' = cache
                /\ decodes' = [decodes EXCEPT ![id] = IF hit THEN @ ELSE @ + 1]
                /\ got' = Some(Call(id, w, h, Some(Rows(cache[id], w, h)), ~hit))
    /\ lockedIo' = IF id \in DOMAIN sprite_cache THEN lockedIo
                   ELSE lockedIo \cup {OpenUnderLock}
    /\ UNCHANGED <<fetchVars, corrupt, viewVars, passes>>

\* ui.rs 64-140: get_sprite_pixels(id, w, h), under the lock of the cache
\* from its first line to its return.  An id without an entry has its file
\* opened, with the lock held: a thumbnail is inserted when that succeeds,
\* None returned when it fails.  The rows are then made from the entry.
GetSpritePixels(id, w, h) ==
    /\ calls[id] < MaxCalls
    /\ calls' = [calls EXCEPT ![id] = calls[id] + 1]
    /\ IF id \notin DOMAIN sprite_cache /\ ~ImageOpens(id)
       THEN /\ got' = Some(Call(id, w, h, None, FALSE))
            /\ UNCHANGED <<sprite_cache, decodes>>
       ELSE LET hit == id \in DOMAIN sprite_cache
                cache == IF hit THEN sprite_cache
                         ELSE Insert(sprite_cache, id,
                                     SpriteThumb(THUMB_W, THUMB_H, id))
            IN  /\ sprite_cache' = cache
                /\ decodes' = [decodes EXCEPT ![id] = IF hit THEN @ ELSE @ + 1]
                /\ got' = Some(Call(id, w, h, Some(Rows(cache[id], w, h)), ~hit))
    /\ lockedIo' = IF id \in DOMAIN sprite_cache THEN lockedIo
                   ELSE lockedIo \cup {OpenUnderLock}
    /\ UNCHANGED <<fetchVars, corrupt, viewVars, passes>>

\* ui.rs 289-320: when a record is visible, draw_ui asks for the sprite of
\* the selected one, all_pokemons[visible[selected_visible]], at the size the
\* terminal leaves.  Positions count from 1 here, from 0 in the code.
DrawSprite ==
    /\ ~crashed
    /\ mainPc = "loop"
    /\ visible # <<>>
    /\ LET sel_idx == visible[selected_visible + 1]
       IN  \E size \in Sizes :
              GetSpritePixels(all_pokemons[sel_idx].pokedex, size[1], size[2])

\* What a key press leaves alone.
KeyFrame == UNCHANGED <<fetchVars, thumbVars, passes>>

\* ui.rs 142-146: next() on a selection and the length of the visible list.
AppNext(selected, len) ==
    IF len # 0 THEN (selected + 1) % len ELSE selected

\* A slip of AppPrevious: the selection stays at the first position.
AppPreviousStops(selected, len) ==
    IF len = 0 THEN selected
    ELSE IF selected = 0 THEN 0
    ELSE selected - 1

\* ui.rs 148-156: previous() on a selection and the length of the visible
\* list.
AppPrevious(selected, len) ==
    IF len = 0 THEN selected
    ELSE IF selected = 0 THEN len - 1
    ELSE selected - 1

\* main.rs 153, ui.rs 142-146: Down outside the search line is next().
KeyDown ==
    /\ ~crashed
    /\ mainPc = "loop"
    /\ ~search_mode
    /\ selected_visible' = AppNext(selected_visible, Len(visible))
    /\ UNCHANGED <<visible, search_mode, search_query>>
    /\ KeyFrame

\* main.rs 168, ui.rs 148-156: Up outside the search line is previous().
KeyUp ==
    /\ ~crashed
    /\ mainPc = "loop"
    /\ ~search_mode
    /\ selected_visible' = AppPrevious(selected_visible, Len(visible))
    /\ UNCHANGED <<visible, search_mode, search_query>>
    /\ KeyFrame

\* main.rs 148-152: '/' opens the search line with an empty query.
KeySlash ==
    /\ ~crashed
    /\ mainPc = "loop"
    /\ ~search_mode
    /\ search_mode' = TRUE
    /\ search_query' = <<>>
    /\ ApplyFilter(all_pokemons, search_query', selected_visible)
    /\ KeyFrame

\* main.rs 136-139: a character typed into the search line.
KeyChar ==
    /\ ~crashed
    /\ mainPc = "loop"
    /\ search_mode
    /\ Len(search_query) < MaxQuery
    /\ \E c \in KeyChars : search_query' = Append(search_query, c)
    /\ ApplyFilter(all_pokemons, search_query', selected_visible)
    /\ UNCHANGED search_mode
    /\ KeyFrame

\* main.rs 132-135: Backspace in the search line; pop() of an empty query
\* leaves it empty.
KeyBackspace ==
    /\ ~crashed
    /\ mainPc = "loop"
    /\ search_mode
    /\ search_query' = SubSeq(search_query, 1, Len(search_query) - 1)
    /\ ApplyFilter(all_pokemons, search_query', selected_visible)
    /\ UNCHANGED search_mode
    /\ KeyFrame

\* main.rs 129-131: Enter or Esc leaves the search line, the query stays.
KeyEnter ==
    /\ ~crashed
    /\ mainPc = "loop"
    /\ search_mode
    /\ search_mode' = FALSE
    /\ UNCHANGED <<visible, selected_visible, search_query>>
    /\ KeyFrame

\* The fetch pipeline at rest after the startup fetch: the cache held every
\* record, the fetch backfilled it (the request for a record without sprite
\* file failed), saved it and handed it over, and the consumer took it.
RestTask(files) ==
    [IdleTask EXCEPT !.pc = "done",
                     !.v = CompleteSet(TargetCount),
                     !.i = TargetCount + 1,
                     !.p = CompleteSet(TargetCount),
                     !.loaded = CompleteSet(TargetCount),
                     !.complete = files,
                     !.requested = Ids \ files,
                     !.refused = Ids \ files,
                     !.saves = 1,
                     !.reset = Some(FetchState(TRUE, 0, TargetCount))]

Rest(files) ==
    /\ cacheFile = File("ok", CompleteSet(TargetCount))
    /\ spriteFiles = files
    /\ persisted = {CompleteSet(TargetCount)}
    /\ fetch_state = FetchState(FALSE, TargetCount, TargetCount)
    /\ updated_data = None
    /\ tasks = [t \in Tasks |-> IF t = 1 THEN RestTask(files) ELSE IdleTask]
    /\ mainPc = "loop"
    /\ all_pokemons = CompleteSet(TargetCount)
    /\ crashed = FALSE
    /\ fetch_limit = TargetCount
    /\ species = EnglishAnswers
    /\ ViewIs(AppNew(all_pokemons))

\* What a step of a thumbnail thread leaves alone.
PassFrame == UNCHANGED <<fetchVars, corrupt, calls, got, lockedIo, viewVars>>

\* A slip of PassOpen: the result of image::open is unwrapped, and the
\* thread panics on a file it cannot open.
PassOpenUnwraps(n) ==
    /\ ~crashed
    /\ n \in DOMAIN passes
    /\ passes[n].pc = "open"
    /\ passes[n].k <= Len(passes[n].ids)
    /\ LET id == passes[n].ids[passes[n].k]
       IN  IF ImageOpens(id)
           THEN /\ passes' = [passes EXCEPT
                                ![n].pc = "insert",
                                ![n].thumb = Some(SpriteThumb(THUMB_W, THUMB_H, id))]
                /\ decodes' = [decodes EXCEPT ![id] = @ + 1]
           ELSE /\ passes' = [passes EXCEPT ![n].pc = "panicked"]
                /\ UNCHANGED decodes
    /\ UNCHANGED sprite_cache
    /\ PassFrame

\* main.rs 101-103: the thread of pass n takes its next id and opens the
\* file, holding no lock: a file that opens is decoded and resized to the
\* thumbnail (104-114), any other is skipped.
PassOpen(n) ==
    /\ ~crashed
    /\ n \in DOMAIN passes
    /\ passes[n].pc = "open"
    /\ passes[n].k <= Len(passes[n].ids)
    /\ LET id == passes[n].ids[passes[n].k]
       IN  IF ImageOpens(id)
           THEN /\ passes' = [passes EXCEPT
                                ![n].pc = "insert",
                                ![n].thumb = Some(SpriteThumb(THUMB_W, THUMB_H, id))]
                /\ decodes' = [decodes EXCEPT ![id] = @ + 1]
           ELSE /\ passes' = [passes EXCEPT ![n].k = passes[n].k + 1]
                /\ UNCHANGED decodes
    /\ UNCHANGED sprite_cache
    /\ PassFrame

\* main.rs 115-116: the thread takes the lock of the cache and inserts its
\* thumbnail under the id, whatever the cache holds for it; the lock goes at
\* the end of the iteration.
PassInsert(n) ==
    /\ ~crashed
    /\ n \in DOMAIN passes
    /\ passes[n].pc = "insert"
    /\ sprite_cache' = Insert(sprite_cache, passes[n].ids[passes[n].k],
                              passes[n].thumb[1])
    /\ passes' = [passes EXCEPT ![n].pc = "open",
                                ![n].k = passes[n].k + 1,
                                ![n].thumb = None]
    /\ UNCHANGED decodes
    /\ PassFrame

\* A fetched list of one record: the request for every record but the last
\* failed, and the last came whole, with its description.
LastFetched == <<BuildPokemon(TargetCount, JsonFull, SpeciesEnglish)>>

\* The startup fetch has backfilled the whole cache and is about to deposit.
PendingBackfill == [RestTask(Ids) EXCEPT !.pc = "deposit"]

\* The same two fetches when the sprite of the last record could not be
\* downloaded by either: the backfill asked for the record again and was
\* refused, the full fetch got the record and not its sprite.
PendingBackfillLacking == [RestTask(Ids \ {TargetCount}) EXCEPT !.pc = "deposit"]

PendingFullLacking ==
    [IdleTask EXCEPT !.pc = "deposit",
                     !.n = TargetCount + 1,
                     !.pokemons = LastFetched,
                     !.p = LastFetched,
                     !.requested = Ids,
                     !.refused = Ids \ {TargetCount},
                     !.undownloaded = {TargetCount},
                     !.saves = 1,
                     !.reset = Some(FetchState(TRUE, 0, TargetCount))]

TwoPendingLacking ==
    /\ cacheFile = File("ok", LastFetched)
    /\ spriteFiles = Ids \ {TargetCount}
    /\ persisted = {CompleteSet(TargetCount), LastFetched}
    /\ fetch_state = FetchState(FALSE, Len(LastFetched), Len(LastFetched))
    /\ updated_data = None
    /\ tasks = [t \in Tasks |-> IF t = 1 THEN PendingBackfillLacking
                                ELSE IF t = 2 THEN PendingFullLacking
                                ELSE IdleTask]
    /\ mainPc = "loop"
    /\ all_pokemons = CompleteSet(TargetCount)
    /\ crashed = FALSE
    /\ fetch_limit = TargetCount
    /\ species = EnglishAnswers
    /\ ViewIs(AppNew(all_pokemons))
    /\ NoThumbs
    /\ corrupt = {}

\* A refresh that found the cache file torn by the save of the startup fetch
\* has fetched everything again, got LastFetched, and is about to deposit.
PendingFull ==
    [IdleTask EXCEPT !.pc = "deposit",
                     !.n = TargetCount + 1,
                     !.pokemons = LastFetched,
                     !.p = LastFetched,
                     !.requested = Ids,
                     !.refused = Ids \ {TargetCount},
                     !.saves = 1,
                     !.reset = Some(FetchState(TRUE, 0, TargetCount))]

\* Two fetches have returned and neither has deposited: the consumer shows
\* the list load_data read at startup, and the file holds the last save.
TwoPending ==
    /\ cacheFile = File("ok", LastFetched)
    /\ spriteFiles = Ids
    /\ persisted = {CompleteSet(TargetCount), LastFetched}
    /\ fetch_state = FetchState(FALSE, Len(LastFetched), Len(LastFetched))
    /\ updated_data = None
    /\ tasks = [t \in Tasks |-> IF t = 1 THEN PendingBackfill
                                ELSE IF t = 2 THEN PendingFull ELSE IdleTask]
    /\ mainPc = "loop"
    /\ all_pokemons = CompleteSet(TargetCount)
    /\ crashed = FALSE
    /\ fetch_limit = TargetCount
    /\ species = EnglishAnswers
    /\ ViewIs(AppNew(all_pokemons))
    /\ NoThumbs
    /\ corrupt = {}

\* The runs of the consumer at its keys while the two lists come in.
InitView == TwoPending

NextView ==
    \/ Take
    \/ \E t \in Tasks : Deposit(t)
    \/ KeyDown
    \/ KeyUp
    \/ KeySlash
    \/ KeyChar
    \/ KeyBackspace
    \/ KeyEnter

SpecView == InitView /\ [][NextView]_vars

\* The runs of the thumbnail threads and the consumer's draws while the two
\* lists come in.  A thread is spawned by a take and a take empties a
\* deposit, so there are no more threads than tasks.
InitThumb == TwoPending

NextThumb ==
    \/ Take
    \/ \E t \in Tasks : Deposit(t)
    \/ \E n \in Tasks : PassOpen(n)
    \/ \E n \in Tasks : PassInsert(n)
    \/ DrawSprite
    \/ KeyDown
    \/ KeyUp

SpecThumb == InitThumb /\ [][NextThumb]_vars

\* The same runs when the loop keeps ticking and every thread gets to run:
\* a list in the slot is taken at some tick (main.rs 81-90), the closure of a
\* fetch that has returned gets to write the slot (main.rs 56-59), and a
\* thumbnail thread gets to make its next step (main.rs 98-119).  The sprite
\* of the last record is on disk or not.
InitLive == TwoPending \/ TwoPendingLacking

NextLive == NextThumb

Fairness ==
    /\ WF_vars(Take)
    /\ \A t \in Tasks : WF_vars(Deposit(t))
    /\ \A n \in Tasks : WF_vars(PassOpen(n))
    /\ \A n \in Tasks : WF_vars(PassInsert(n))

SpecLive == InitLive /\ [][NextLive]_vars /\ Fairness

\* The startup fetch found a cache of len records shorter than the limit,
\* went for a full fetch and failed at its list request.
FailedTask(len) ==
    [IdleTask EXCEPT !.pc = "failed",
                     !.discarded = TRUE,
                     !.reset = Some(FetchState(TRUE, 0, len + 1))]

\* The runs of the consumer at its keys over a list of up to MaxVisible
\* records, read by load_data from the cache, with any of them selected.
InitNav ==
    \E len \in 0..MaxVisible :
       /\ cacheFile = File("ok", CompleteSet(len))
       /\ spriteFiles = 1..len
       /\ persisted = {CompleteSet(len)}
       /\ fetch_state = FetchState(TRUE, 0, len + 1)
       /\ updated_data = None
       /\ tasks = [t \in Tasks |-> IF t = 1 THEN FailedTask(len) ELSE IdleTask]
       /\ mainPc = "loop"
       /\ all_pokemons = CompleteSet(len)
       /\ crashed = FALSE
       /\ fetch_limit = len + 1
       /\ species = EnglishAnswers
       /\ visible = AppNew(all_pokemons).visible
       /\ selected_visible \in 0..(IF len = 0 THEN 0 ELSE len - 1)
       /\ search_mode = FALSE
       /\ search_query = <<>>
       /\ NoThumbs
       /\ corrupt = {}

NextNav ==
    \/ KeyDown
    \/ KeyUp
    \/ KeySlash
    \/ KeyChar
    \/ KeyBackspace
    \/ KeyEnter

SpecNav == InitNav /\ [][NextNav]_vars

\* The runs of the consumer drawing sprites while no fetch runs: every
\* sprite file is there or the last is missing, and any of the files may be
\* something else than an image.
InitGet ==
    /\ \E files \in {Ids, Ids \ {TargetCount}} : Rest(files)
    /\ NoThumbs
    /\ corrupt \in SUBSET spriteFiles

NextGet == DrawSprite \/ KeyDown \/ KeyUp

SpecGet == InitGet /\ [][NextGet]_vars

----------------------------------------------------------------------------
(* The claims about the thumbnail cache.                                    *)

----------------------------------------------------------------------------
(* More claims about the fetch pipeline.                                    *)

\* C23: a take reads and clears the slot in one step.  Whatever leaves the
\* slot is the list the consumer gets; the consumer's list changes only by
\* emptying a slot that held it, so a deposit is delivered at most once and
\* the slot is empty after a take; and the slot is filled only by the deposit
\* of a task, whose list stays there for the next take.
C23_TakeReadsAndClears ==
    [][~crashed' =>
         /\ (updated_data # None /\ updated_data' = None)
               => all_pokemons' = updated_data[1]
         /\ (mainPc = "loop" /\ all_pokemons' # all_pokemons)
               => (updated_data = Some(all_pokemons') /\ updated_data' = None)
         /\ (updated_data' # None /\ updated_data' # updated_data)
               => \E t \in Tasks :
                     /\ tasks[t].pc = "deposit"
                     /\ tasks'[t].pc = "done"
                     /\ updated_data' = Some(tasks[t].p)]_vars

\* C23 happens: the consumer has taken the list the first task deposited,
\* the slot is empty, and the second task is about to deposit.
C23_Witness ==
    /\ mainPc = "loop"
    /\ updated_data = None
    /\ tasks[1].pc = "done"
    /\ tasks[2].pc = "deposit"
    /\ all_pokemons = tasks[1].p
    /\ tasks[2].p # tasks[1].p

\* C24: the backfill loop sends the request for the record it is at if and
\* only if that record is not complete, complete meaning: its sprite file
\* exists, its sprite reference is set, its abilities and its stats are
\* non-empty, its height, weight and base_experience are above 0.
C24_RequestIffNotComplete ==
    [][\A t \in Tasks :
          (tasks[t].pc = "bf_check" /\ tasks'[t].pc # "bf_check" /\ ~crashed')
          => LET p == tasks[t].v[tasks[t].i]
                 complete == /\ p.pokedex \in spriteFiles
                             /\ p.sprite # None
                             /\ Len(p.abilities) > 0
                             /\ Len(p.stats) > 0
                             /\ p.height > 0
                             /\ p.weight > 0
                             /\ p.base_experience > 0
             IN  /\ tasks'[t].pc = "bf_request" <=> ~complete
                 /\ tasks'[t].pc = "bf_progress" <=> complete
                 /\ tasks'[t].requested = tasks[t].requested]_vars

\* C24 happens: a backfill pass has gone through a cache whose first record
\* was complete and got no request and whose last record, without weight,
\* got one.
C24_Witness ==
    \E t \in Tasks :
       /\ BackfillPassed(t)
       /\ Len(tasks[t].loaded) = TargetCount
       /\ tasks[t].loaded[TargetCount].weight = 0
       /\ tasks[t].requested = {TargetCount}

\* C26: on the backfill path, a record whose request failed or whose answer
\* did not decode is left as it was in every field, at its position; the
\* progress is then advanced for it (fetched = its position) and the pass
\* goes on with the next record, or to the save after the last.
C26_BackfillFailureLeavesRecord ==
    /\ [](\A t \in Tasks : OnBackfill(t) =>
            \A k \in tasks[t].refused :
               /\ tasks[t].v[k] = tasks[t].loaded[k]
               /\ Returned(t) => tasks[t].p[k] = tasks[t].loaded[k])
    /\ [][\A t \in Tasks : ~crashed' =>
            /\ (tasks[t].pc = "bf_request" /\ tasks'[t].refused # tasks[t].refused)
                  => /\ tasks'[t].v = tasks[t].v
                     /\ tasks'[t].i = tasks[t].i
                     /\ tasks'[t].pc = "bf_progress"
            /\ (/\ tasks[t].pc = "bf_progress"
                /\ tasks'[t].pc # "bf_progress"
                /\ tasks[t].i \in tasks[t].refused)
                  => /\ fetch_state'.fetched = tasks[t].i
                     /\ tasks'[t].i = tasks[t].i + 1
                     /\ tasks'[t].v = tasks[t].v
                     /\ tasks'[t].pc = IF tasks[t].i < Len(tasks[t].v)
                                       THEN "bf_check" ELSE "bf_save"]_vars

\* C26 happens: a backfill pass has returned its list after the request for
\* its first record failed and the request for its second was answered.
C26_Witness ==
    \E t \in Tasks :
       /\ Returned(t)
       /\ tasks[t].i > 0
       /\ tasks[t].refused = {1}
       /\ tasks[t].requested = {1, TargetCount}
       /\ tasks[t].p[TargetCount] # tasks[t].loaded[TargetCount]

\* The positions at which a task sends a request to the remote service.
AtRequest(t) == tasks[t].pc \in {"bf_request", "list", "f_request"}

\* C27: every fetch resets the shared FetchState before its first request:
\* a task that is at a request, or has sent one, has written in_progress =
\* true, fetched = 0 and total = the length of the loaded cache (backfill
\* path) or the limit (full-fetch path) into it, in one step under the lock.
C27_ResetBeforeFirstRequest ==
    /\ [](\A t \in Tasks :
            (AtRequest(t) \/ tasks[t].requested # {}) =>
               tasks[t].reset =
                  Some(FetchState(TRUE, 0, IF OnBackfill(t) THEN Len(tasks[t].loaded)
                                           ELSE fetch_limit)))
    /\ [][\A t \in Tasks :
            (tasks'[t].reset # tasks[t].reset /\ ~crashed')
            => /\ tasks[t].reset = None
               /\ tasks[t].requested = {}
               /\ fetch_state' = tasks'[t].reset[1]]_vars

\* C27 happens: the second fetch, on the full-fetch path, is at its list
\* request after the first fetch had counted a record.
C27_Witness ==
    /\ tasks[2].pc = "list"
    /\ tasks[1].pc = "f_request"
    /\ tasks[1].n = TargetCount
    /\ tasks[2].reset = Some(FetchState(TRUE, 0, TargetCount))
    /\ fetch_state = FetchState(TRUE, 0, TargetCount)

\* C30: when no fetch is running or about to deposit, the slot is empty and
\* a deposit has been taken, the list the consumer holds is the content of
\* the cache file.
C30_ConsumerListIsCacheFile ==
    (/\ mainPc = "loop"
     /\ updated_data = None
     /\ \A t \in Tasks : tasks[t].pc \in {"idle", "done", "failed"}
     /\ \E t \in Tasks : tasks[t].pc = "done")
    => cacheFile = File("ok", all_pokemons)

----------------------------------------------------------------------------
(* More claims about the thumbnail cache.                                   *)

\* C22: get_sprite_pixels for an id that has no entry in the cache and no
\* sprite file on disk returns None, the consumer goes on, and the cache is
\* left as it was: no entry is inserted for that id and nothing is decoded.
C22_MissingFileIsNotFound ==
    [][\A id \in Ids :
          (/\ id \notin DOMAIN sprite_cache
           /\ id \notin spriteFiles
           /\ calls'[id] = calls[id] + 1)
          => /\ got' # None
             /\ got'[1].id = id
             /\ got'[1].rows = None
             /\ sprite_cache' = sprite_cache
             /\ id \notin DOMAIN sprite_cache'
             /\ decodes' = decodes
             /\ mainPc' = "loop"
             /\ ~crashed']_vars

\* C22 happens: the last call was for an id without sprite file, it returned
\* None, and another id has its thumbnail in the cache.
C22_Witness ==
    /\ got # None
    /\ got[1].id \notin spriteFiles
    /\ got[1].id \notin DOMAIN sprite_cache
    /\ got[1].rows = None
    /\ calls[got[1].id] >= 1
    /\ sprite_cache # <<>>

\* C21: no lock is held across a network or disk call: no context has made a
\* request, a file read or write or an image decode while holding the lock
\* of the progress state, of the hand-off slot or of the sprite cache.
C21_NoIoUnderLock == lockedIo = {}

----------------------------------------------------------------------------
(* The claims about the consumer's view.                                    *)

\* C29: after any sequence of next, previous, edits of the search query and
\* replacements of the list by a taken one, every index in visible is a
\* position of all_pokemons, and when visible is not empty the selection is
\* below its length, so that draw_ui indexes inside both lists.  (Positions
\* of all_pokemons count from 1 here; the selection counts from 0 as in the
\* code.)
C29_SelectionValid ==
    /\ \A j \in 1..Len(visible) : visible[j] \in 1..Len(all_pokemons)
    /\ selected_visible >= 0
    /\ visible # <<>> => selected_visible < Len(visible)

\* C29 happens: a list was taken, the query "b" was typed and left, and the
\* selection was moved to the second of the two records it shows; and the
\* list that replaced a longer one is shown under a query that matches it.
C29_Witness ==
    \/ /\ Len(passes) = 1
       /\ search_query = <<"b">>
       /\ ~search_mode
       /\ visible = <<1, 2>>
       /\ selected_visible = 1
    \/ /\ Len(passes) = 2
       /\ all_pokemons = LastFetched
       /\ search_query = <<"F">>
       /\ visible = <<1>>
       /\ selected_visible = 0

----------------------------------------------------------------------------
(* The claims about the thumbnail threads.                                  *)

\* C25: the thumbnail of an id is generated once: over the calls of
\* get_sprite_pixels and the thumbnail threads, one per taken list, the
\* sprite file of an id is decoded at most once, and a thread inserts its
\* thumbnail only under an id the cache has no entry for.
C25_GeneratedOncePerId ==
    /\ [](\A id \in Ids : decodes[id] <= 1)
    /\ [][\A n \in DOMAIN passes :
            (passes[n].pc = "insert" /\ passes'[n].pc = "open")
            => passes[n].ids[passes[n].k] \notin DOMAIN sprite_cache]_vars

\* C28: every entry of the sprite cache is well-formed whatever the order of
\* get_sprite_pixels calls and thumbnail thread steps: it is 48 by 48 and its
\* buffer holds width*height*3 bytes; and the highest index a call read to
\* make its rows is inside the buffer it read.
C28_EntriesWellFormed ==
    /\ \A id \in DOMAIN sprite_cache :
          LET thumb == sprite_cache[id]
          IN  /\ thumb.w = THUMB_W
              /\ thumb.h = THUMB_H
              /\ thumb.pixels.len = thumb.w * thumb.h * 3
    /\ (got # None /\ got[1].rows # None)
          => got[1].rows[1].last < got[1].rows[1].from.len

\* C28 happens: every id has its entry, a thread has gone through a list
\* and inserted, the consumer's last call decoded and inserted too, and rows
\* of another size were made from an entry.
C28_Witness ==
    /\ DOMAIN sprite_cache = Ids
    /\ \E n \in DOMAIN passes :
          /\ passes[n].ids # <<>>
          /\ passes[n].k > Len(passes[n].ids)
    /\ \E id \in Ids : decodes[id] >= 2
    /\ got # None
    /\ got[1].rows # None
    /\ got[1].rows[1].resized

----------------------------------------------------------------------------
(* The claims about the end of a fetch and what follows it.                 *)

\* C31: a fetch that ends with an error leaves the slot, the cache file and
\* the consumer's list as they were: the step that fails changes none of
\* them and starts no thumbnail thread, the task has made no save, and it
\* takes no step afterwards, so nothing of it is deposited.
C31_FailedFetchChangesNothing ==
    /\ [](\A t \in Tasks : tasks[t].pc = "failed" => tasks[t].saves = 0)
    /\ [][\A t \in Tasks :
            /\ (tasks[t].pc # "failed" /\ tasks'[t].pc = "failed")
               => /\ updated_data' = updated_data
                  /\ cacheFile' = cacheFile
                  /\ all_pokemons' = all_pokemons
                  /\ passes' = passes
            /\ (tasks[t].pc = "failed" /\ ~crashed')
               => tasks'[t] = tasks[t]]_vars

\* C31 happens: the refresh failed after a request, while the list of the
\* startup fetch is in the slot and in the file.
C31_Witness ==
    /\ tasks[2].pc = "failed"
    /\ tasks[2].requested # {}
    /\ tasks[1].pc = "done"
    /\ updated_data = Some(tasks[1].p)
    /\ cacheFile = File("ok", tasks[1].p)

\* C32: when a fetch has returned a list and the loop keeps ticking, the
\* list is written to the slot and the slot is emptied afterwards; what
\* leaves the slot becomes the consumer's list, and the slot holds what the
\* last closure wrote.  So the consumer gets that list or one deposited
\* after it, and no deposit stays in the slot for ever.
C32_DepositIsTaken ==
    /\ \A t \in Tasks :
          tasks[t].pc = "deposit"
             ~> (tasks[t].pc = "done" /\ updated_data = None /\ passes # <<>>)
    /\ updated_data # None ~> updated_data = None
    /\ [][/\ (updated_data # None /\ updated_data' = None)
               => /\ all_pokemons' = updated_data[1]
                  /\ Len(passes') = Len(passes) + 1
           /\ \A t \in Tasks :
                 (tasks[t].pc = "deposit" /\ tasks'[t].pc = "done")
                 => updated_data' = Some(tasks[t].p)]_vars

\* C32 happens: both lists were deposited, the second over the first, and
\* the consumer took once and shows the second.
C32_Witness ==
    /\ tasks[1].pc = "done"
    /\ tasks[2].pc = "done"
    /\ updated_data = None
    /\ Len(passes) = 1
    /\ all_pokemons = LastFetched

\* The thread of pass n has gone through its list.
PassEnded(n) ==
    /\ n \in DOMAIN passes
    /\ passes[n].pc = "open"
    /\ passes[n].k > Len(passes[n].ids)

C34_NavigationWraps ==
    [][/\ (KeyDown /\ visible # <<>>)
          => /\ selected_visible = Len(visible) - 1 => selected_visible' = 0
             /\ selected_visible < Len(visible) - 1
                   => selected_visible' = selected_visible + 1
             /\ AppPrevious(selected_visible', Len(visible')) = selected_visible
       /\ (KeyUp /\ visible # <<>>)
          => /\ selected_visible = 0 => selected_visible' = Len(visible) - 1
             /\ selected_visible > 0
                   => selected_visible' = selected_visible - 1
             /\ AppNext(selected_visible', Len(visible')) = selected_visible
       /\ ((KeyDown \/ KeyUp) /\ visible = <<>>)
          => UNCHANGED vars]_vars

\* C34 happens: under the query "bb" three of four records are visible and
\* the last of them is selected, where Down and Up differ and Down wraps.
C34_Witness ==
    /\ search_query = <<"b", "b">>
    /\ ~search_mode
    /\ Len(all_pokemons) = MaxVisible
    /\ visible = <<2, 3, 4>>
    /\ selected_visible = 2

====
